---- MODULE Spec2Model ----
(***************************************************************************)
(* A model of the bakery site scripts:                                     *)
(*   - src/src/download.py : the incremental image sync                    *)
(*       (download_images_from_csv, _load_manifest, _save_manifest,        *)
(*        _generate_web_images, _save_with_budget)                         *)
(*   - src/src/generate.py : generate_site and the MenuItem validators     *)
(*   - src/src/utils.py    : slugify                                       *)
(*                                                                         *)
(* Four specifications share the module:                                   *)
(*   Spec       the sync pipeline, run after run, with the Drive folders   *)
(*              and the manifest file changing between runs                *)
(*   SpecRun    one sync run, from a fresh disk or the disk of an earlier  *)
(*              run, with the manifest file intact or damaged              *)
(*   SpecBudget the adaptive quality loop of _save_with_budget             *)
(*   SpecGen    generate_site over a catalog                               *)
(*                                                                         *)
(* Strings that the code takes apart (names, prices, image names in        *)
(* generate.py) are sequences of one-character strings.  Byte strings are  *)
(* tuples: <<"X">> is a raw file's content, <<"JPEG", q, b>> the JPEG      *)
(* encoding at quality q of the image decoded from b.                      *)
(***************************************************************************)
EXTENDS Integers, Sequences, FiniteSets, TLC

\* ------------------------------------------------------------- bounds
\* Rows of the menu sheet read by one sync run.
MaxRows == 2
\* Sync runs in one behaviour.
MaxRuns == 2
\* Outside events (Drive, sheet, manifest file) in one behaviour.
MaxChanges == 1
\* Rows of the catalog given to generate_site.
MaxGenRows == 3

\* ---------------------------------------------------------- constants
RAW_MAX_BYTES == 4 * 1024 * 1024
WEB_MAX_BYTES == 1 * 1024 * 1024
EMIT_JPEG == TRUE
EMIT_WEBP == FALSE
JPEG_QUALITY_START == 85
WEBP_QUALITY_START == 80
\* The loop of _save_with_budget: "while best_q >= 30", "best_q -= 5".
QUALITY_FLOOR == 30
QUALITY_STEP == 5
CATEGORIES == {"Cookies & Shortbreads", "Cakes & Puddings", "Granola & Pantry"}

\* ------------------------------------------------------ string helpers
\* One-character strings.  UpperCase and LowerCase are listed pairwise.
UpperCase == <<"B", "C", "G", "J", "N", "P", "T", "Y">>
LowerCase == <<"b", "c", "g", "j", "n", "p", "t", "y">>
OtherLower == {"a", "e", "f", "i", "o", "s", "x"}
Digits == {"0", "1", "2", "5"}

\* str.lower() on one character.
LowerChar(ch) ==
    IF \E k \in 1..Len(UpperCase) : UpperCase[k] = ch
    THEN LowerCase[CHOOSE k \in 1..Len(UpperCase) : UpperCase[k] = ch]
    ELSE ch

\* str.lower()
Lower(s) == [k \in 1..Len(s) |-> LowerChar(s[k])]

IsSpace(ch) == ch = " "

\* \w of the re module on ASCII text: letters, digits and the underscore.
IsWordChar(ch) ==
    \/ \E k \in 1..Len(UpperCase) : ch \in {UpperCase[k], LowerCase[k]}
    \/ ch \in OtherLower
    \/ ch \in Digits
    \/ ch = "_"

\* The longest prefix of s made of characters of chars is removed.
RECURSIVE LStrip(_, _)
LStrip(s, chars) ==
    IF s # <<>> /\ Head(s) \in chars THEN LStrip(Tail(s), chars) ELSE s

RECURSIVE RStrip(_, _)
RStrip(s, chars) ==
    IF s # <<>> /\ s[Len(s)] \in chars
    THEN RStrip(SubSeq(s, 1, Len(s) - 1), chars)
    ELSE s

\* str.strip(chars); str.strip() strips white space.
Strip(s, chars) == RStrip(LStrip(s, chars), chars)

\* str.replace(old, "") for a one-character old.
Remove(s, old) ==
    LET Keep(ch) == ch # old IN SelectSeq(s, Keep)

\* str.endswith(suffix)
EndsWith(s, suffix) ==
    /\ Len(suffix) <= Len(s)
    /\ SubSeq(s, Len(s) - Len(suffix) + 1, Len(s)) = suffix

\* str.isdigit(): non-empty and every character a digit.
IsDigit(s) == s # <<>> /\ \A k \in 1..Len(s) : s[k] \in Digits

\* unicodedata.normalize("NFKD", v).encode("ascii", "ignore").decode("ascii"):
\* an accented letter decomposes into its base letter and a combining mark,
\* which is dropped with every other non-ASCII character.
NonAscii == {"₹"}
Decomposed(ch) == IF ch = "é" THEN "e" ELSE ch
AsciiFold(s) ==
    LET Keep(ch) == ch \notin NonAscii
    IN  SelectSeq([k \in 1..Len(s) |-> Decomposed(s[k])], Keep)

\* re.sub(r"[\s_-]+", "-", v): every maximal run of separators becomes one "-".
Separators == {" ", "_", "-"}
RECURSIVE CollapseSeparators(_)
CollapseSeparators(s) ==
    IF s = <<>> THEN <<>>
    ELSE IF Head(s) \in Separators
         THEN <<"-">> \o CollapseSeparators(LStrip(s, Separators))
         ELSE <<Head(s)>> \o CollapseSeparators(Tail(s))

slugify(value) ==
    LET folded == AsciiFold(value)
        Keep(ch) == IsWordChar(ch) \/ IsSpace(ch) \/ ch = "-"
        cleaned == Lower(Strip(SelectSeq(folded, Keep), {" "}))
    IN  Strip(CollapseSeparators(cleaned), {"-"})

\* ------------------------------------------------- the sync pipeline
VARIABLES
    \* Google Drive: the folder's files, and its "web" sub-folder.
    driveName, driveBytes, driveHasWeb, driveWeb,
    \* Local disk: the manifest file, the raw and the web image folder.
    manifestFile, rawDir, webDir,
    \* download_images_from_csv: its locals; new_rows holds the rows of
    \* data/menu.csv read so far.
    pc, fix_images, files, web_files, manifest, errors, manual_upload, new_rows,
    \* History of the current run, kept for the properties below.
    startFile, loaded, log, saves, base, cause,
    \* Counters that bound a behaviour; clock is time.time() in whole seconds.
    runs, changes, clock

syncVars == <<driveName, driveBytes, driveHasWeb, driveWeb, manifestFile,
              rawDir, webDir, pc, fix_images, files, web_files, manifest,
              errors, manual_upload, new_rows, startFile, loaded, log, saves,
              base, cause, runs, changes, clock>>

\* The files of the Drive folder, in the order the listing returns them.
FileIds == <<"f1", "f2">>
FileIdSet == {FileIds[k] : k \in 1..Len(FileIds)}
ImageNames == {"a.jpg", "b.jpg"}
\* Raw uploads: X a small photo, Y one over RAW_MAX_BYTES, Z not an image.
RawContents == {<<"X">>, <<"Y">>, <<"Z">>}
\* A file somebody put into the "web" folder by hand.
HandMade == <<"W">>

\* Image.open(raw_path) followed by the first use of the image succeeds.
Decodable(b) == b \in {<<"X">>, <<"Y">>}

\* The size of the encoding at quality q of the image decoded from b.
EncodedSize(b, q) == IF b = <<"X">> THEN 10000 * q ELSE 20000 * q

\* len(content), Path.stat().st_size
NumBytes(b) ==
    CASE b = <<"X">> -> 300 * 1024
      [] b = <<"Y">> -> 5 * 1024 * 1024
      [] b = <<"Z">> -> 10
      [] b = HandMade -> 777
      [] OTHER -> EncodedSize(b[3], b[2])

\* hashlib.sha256: taken to be free of collisions on the bytes of the model.
_sha256_bytes(b) == <<"sha256", b>>

\* A dict (and a directory): a function on the keys present.
NoDict == <<>>
Put(d, k, v) == [x \in (DOMAIN d) \cup {k} |-> IF x = k THEN v ELSE d[x]]

\* The rows the sheet can hold: name and image column.
\*   "T C" and "t_c" have the same slug; "B!" shares a.jpg with "T C";
\*   one row has no name and one no image.
Rows ==
    { [name |-> <<"T", " ", "C">>, image |-> "a.jpg"],
      [name |-> <<"t", "_", "c">>, image |-> "b.jpg"],
      [name |-> <<"B", "!">>, image |-> "a.jpg"],
      [name |-> <<" ">>, image |-> "b.jpg"],
      [name |-> <<"B", "!">>, image |-> ""] }

\* _drive_list_files: id and name of every file, in listing order.
_drive_list_files ==
    [k \in 1..Len(FileIds) |-> [id |-> FileIds[k], name |-> driveName[FileIds[k]]]]

\* _load_manifest: the parsed document when the file exists and parses,
\* otherwise {"images": {}}.
_load_manifest(file) ==
    IF file.exists /\ file.parses THEN file.doc ELSE [images |-> NoDict]

\* _save_manifest: json.dumps of the whole document replaces the file.
_save_manifest(doc) == [exists |-> TRUE, parses |-> TRUE, doc |-> doc]

\* The loop condition of _save_with_budget with ">" for ">=".
LoopCondition_strict(q) == q > QUALITY_FLOOR

\* "while best_q >= 30"
LoopCondition(q) == q >= QUALITY_FLOOR

\* _save_with_budget as a function: the quality of the last encoding written,
\* for a q that passes the loop condition (both callers' q_start do).
RECURSIVE _save_with_budget(_, _, _)
_save_with_budget(b, max_bytes, q) ==
    IF EncodedSize(b, q) <= max_bytes THEN q
    ELSE IF LoopCondition(q - QUALITY_STEP)
         THEN _save_with_budget(b, max_bytes, q - QUALITY_STEP)
         ELSE q

JpegPath(stem) == <<stem, ".jpg">>
WebpPath(stem) == <<stem, ".webp">>

\* _generate_web_images: the web folder afterwards and the dict returned.
_generate_web_images(dir, raw, stem) ==
    LET jpg == <<"JPEG", _save_with_budget(raw, WEB_MAX_BYTES, JPEG_QUALITY_START), raw>>
        webp == <<"WEBP", _save_with_budget(raw, WEB_MAX_BYTES, WEBP_QUALITY_START), raw>>
        dir1 == IF EMIT_JPEG THEN Put(dir, JpegPath(stem), jpg) ELSE dir
        dir2 == IF EMIT_WEBP THEN Put(dir1, WebpPath(stem), webp) ELSE dir1
        out1 == IF EMIT_JPEG
                THEN ("jpeg" :> JpegPath(stem)) @@ ("jpeg_bytes" :> NumBytes(jpg))
                ELSE NoDict
        out2 == IF EMIT_WEBP
                THEN out1 @@ ("webp" :> WebpPath(stem)) @@ ("webp_bytes" :> NumBytes(webp))
                ELSE out1
    IN  [dir |-> dir2, out |-> out2]

\* The branch "else: out = {}; if jpeg_path.exists(): ..." of the row loop.
ExistingVariants(dir, stem) ==
    LET out1 == IF JpegPath(stem) \in DOMAIN dir
                THEN ("jpeg" :> JpegPath(stem))
                     @@ ("jpeg_bytes" :> NumBytes(dir[JpegPath(stem)]))
                ELSE NoDict
    IN  IF WebpPath(stem) \in DOMAIN dir
        THEN out1 @@ ("webp" :> WebpPath(stem))
                  @@ ("webp_bytes" :> NumBytes(dir[WebpPath(stem)]))
        ELSE out1

\* matching_files[0].get("id") if matching_files else None ("" is None here).
FileIdFor(image_raw_name) ==
    LET Match(f) == f.name = image_raw_name
        matching_files == SelectSeq(files, Match)
    IN  IF matching_files # <<>> THEN matching_files[1].id ELSE ""

\* The dict literal of "m[file_id] = {...}".
EntryFor(name, image_raw_name, content, slug, out, now) ==
    [name |-> name, raw_name |-> image_raw_name,
     raw_sha |-> _sha256_bytes(content), raw_bytes |-> NumBytes(content),
     slug |-> slug, updated_at |-> now] @@ out

\* The upsert replaced by a manifest rebuilt from the row at hand.
Upsert_fresh(m, file_id, entry) == file_id :> entry

\* m[file_id] = entry
Upsert(m, file_id, entry) == Put(m, file_id, entry)

\* "for row in reader" can yield another row: data/menu.csv is an input,
\* read row by row, of at most MaxRows rows.
MoreRows == Len(new_rows) < MaxRows

\* The local disk after an earlier complete run over the rows ("B!", a.jpg)
\* and ("t_c", b.jpg), made while f1 held X and f2 held Y.
PriorSync ==
    LET n1 == <<"B", "!">>
        n2 == <<"t", "_", "c">>
        g1 == _generate_web_images(NoDict, <<"X">>, slugify(n1))
        g2 == _generate_web_images(g1.dir, <<"Y">>, slugify(n2))
        e1 == EntryFor(n1, "a.jpg", <<"X">>, slugify(n1), g1.out, 0)
        e2 == EntryFor(n2, "b.jpg", <<"Y">>, slugify(n2), g2.out, 0)
    IN  [raw |-> ("a.jpg" :> <<"X">>) @@ ("b.jpg" :> <<"Y">>),
         web |-> g2.dir,
         file |-> _save_manifest([images |-> ("f1" :> e1) @@ ("f2" :> e2)])]

NoFile == [exists |-> FALSE, parses |-> FALSE, doc |-> NoDict]
FreshDisk == [raw |-> NoDict, web |-> NoDict, file |-> NoFile]

\* A manifest file deleted, cut into something json.loads rejects, or
\* replaced by JSON of another shape (here "{}").
DamagedFiles ==
    { NoFile,
      [exists |-> TRUE, parses |-> FALSE, doc |-> NoDict],
      [exists |-> TRUE, parses |-> TRUE, doc |-> NoDict] }

\* No finished run directly before this one.
NoBase == [valid |-> FALSE, rows |-> <<>>, images |-> NoDict, web |-> NoDict]

\* A catalog row that reaches no file: what the run remembers of it.
Skipped(row, why) ==
    [image |-> row.image, fid |-> "", outcome |-> why, transcoded |-> FALSE,
     fetched |-> <<>>, decoded |-> <<>>]

\* The state before any run: a fresh checkout beside a Drive folder holding
\* two photos, with or without its "web" sub-folder; no sheet exported yet.
Init ==
    /\ driveName = [f \in FileIdSet |-> IF f = "f1" THEN "a.jpg" ELSE "b.jpg"]
    /\ driveBytes = [f \in FileIdSet |-> IF f = "f1" THEN <<"X">> ELSE <<"Y">>]
    /\ driveHasWeb \in BOOLEAN
    /\ driveWeb = NoDict
    /\ manifestFile = NoFile
    /\ rawDir = NoDict
    /\ webDir = NoDict
    /\ new_rows = <<>>
    /\ pc = "idle"
    /\ fix_images = FALSE
    /\ files = <<>>
    /\ web_files = {}
    /\ manifest = [images |-> NoDict]
    /\ errors = <<>>
    /\ manual_upload = FALSE
    /\ startFile = manifestFile
    /\ loaded = NoDict
    /\ log = <<>>
    /\ saves = 0
    /\ base = NoBase
    /\ cause = ""
    /\ runs = 0
    /\ changes = 0
    /\ clock = 0

\* download_images_from_csv up to the row loop: the two listings, the "web"
\* folder made when missing, _load_manifest and m = manifest["images"], which
\* raises when the parsed document has no "images".
StartRun(fix) ==
    /\ pc # "rows"
    /\ new_rows' = <<>>
    /\ runs < MaxRuns
    /\ runs' = runs + 1
    /\ clock' = clock + 1
    /\ fix_images' = fix
    /\ files' = _drive_list_files
    /\ web_files' = DOMAIN driveWeb
    /\ driveHasWeb' = TRUE
    /\ LET doc == _load_manifest(manifestFile)
       IN  /\ manifest' = doc
           /\ IF "images" \in DOMAIN doc
              THEN pc' = "rows" /\ cause' = "" /\ loaded' = doc.images
              ELSE pc' = "aborted" /\ cause' = "manifest" /\ loaded' = NoDict
    /\ errors' = <<>>
    /\ manual_upload' = FALSE
    /\ log' = <<>>
    /\ saves' = 0
    /\ startFile' = manifestFile
    /\ base' = IF pc = "done"
               THEN [valid |-> TRUE, rows |-> new_rows,
                     images |-> manifestFile.doc.images, web |-> webDir]
               ELSE NoBase
    /\ UNCHANGED <<driveName, driveBytes, driveWeb, manifestFile,
                   rawDir, webDir, changes>>

\* The body of "for row in reader" for a row that is skipped.
SkipRow(row, why) ==
    /\ new_rows' = Append(new_rows, row)
    /\ log' = Append(log, Skipped(row, why))
    /\ UNCHANGED <<rawDir, webDir, manifest, errors, manual_upload, pc, cause>>

\* The try block of the row loop for a row that resolved to file_id.
\* fail says where _drive_download_bytes raises, if it does.
SyncRow(row, name, file_id, fail) ==
    LET image_raw_name == row.image
        slug == slugify(name)
        content == driveBytes[file_id]
        raw_sha == _sha256_bytes(content)
        raw_bytes == NumBytes(content)
        errors1 == IF raw_bytes > RAW_MAX_BYTES
                   THEN Append(errors, [kind |-> "raw too big", ref |-> image_raw_name])
                   ELSE errors
        m == manifest.images
        prev == IF file_id \in DOMAIN m THEN m[file_id] ELSE NoDict
        raw_changed == ~("raw_sha" \in DOMAIN prev /\ prev.raw_sha = raw_sha)
        raw1 == IF raw_changed \/ image_raw_name \notin DOMAIN rawDir
                THEN Put(rawDir, image_raw_name, content)
                ELSE rawDir
        jpeg_path == JpegPath(slug)
        webp_path == WebpPath(slug)
        web1 == IF webp_path \in web_files
                THEN Put(webDir, webp_path, driveWeb[webp_path])
                ELSE webDir
        web2 == IF jpeg_path \in web_files
                THEN Put(web1, jpeg_path, driveWeb[jpeg_path])
                ELSE web1
        none_local == jpeg_path \notin DOMAIN web2 /\ webp_path \notin DOMAIN web2
        need_web == fix_images \/ raw_changed \/ none_local
        decodes == Decodable(raw1[image_raw_name])
        gen == _generate_web_images(web2, raw1[image_raw_name], slug)
        out == IF need_web THEN gen.out ELSE ExistingVariants(web2, slug)
        entry == EntryFor(name, image_raw_name, content, slug, out, clock)
        raised == [kind |-> "exception", ref |-> file_id]
        done(outcome, transcoded) ==
            [image |-> image_raw_name, fid |-> file_id, outcome |-> outcome,
             transcoded |-> transcoded, fetched |-> content,
             decoded |-> IF transcoded THEN raw1[image_raw_name] ELSE <<>>]
    IN  /\ new_rows' = Append(new_rows, row)
        /\ CASE fail = "fetch" ->
                  \* the raw download raises: nothing was written
                  /\ errors' = Append(errors, raised)
                  /\ log' = Append(log, done("failed", FALSE))
                  /\ pc' = "aborted" /\ cause' = "row"
                  /\ UNCHANGED <<rawDir, webDir, manifest, manual_upload>>
             [] fail = "web fetch" ->
                  \* the download of a published variant raises: the raw file is saved
                  /\ (webp_path \in web_files \/ jpeg_path \in web_files)
                  /\ errors' = Append(errors1, raised)
                  /\ log' = Append(log, done("failed", FALSE))
                  /\ rawDir' = raw1
                  /\ pc' = "aborted" /\ cause' = "row"
                  /\ UNCHANGED <<webDir, manifest, manual_upload>>
             [] fail = "none" /\ need_web /\ ~decodes ->
                  \* Image.open raises on the raw file
                  /\ errors' = Append(errors1, raised)
                  /\ log' = Append(log, done("failed", FALSE))
                  /\ rawDir' = raw1
                  /\ webDir' = web2
                  /\ manual_upload' = (manual_upload \/ none_local)
                  /\ pc' = "aborted" /\ cause' = "row"
                  /\ UNCHANGED manifest
             [] OTHER ->
                  /\ errors' = errors1
                  /\ log' = Append(log, done("ok", need_web))
                  /\ rawDir' = raw1
                  /\ webDir' = IF need_web THEN gen.dir ELSE web2
                  /\ manual_upload' = (manual_upload \/ none_local)
                  /\ manifest' = [manifest EXCEPT !.images = Upsert(m, file_id, entry)]
                  /\ UNCHANGED <<pc, cause>>

\* One pass of "for row in reader", for the next row of the file: all of its
\* effects but the one on the manifest file.
RowPass(row) ==
    /\ pc = "rows"
    /\ MoreRows
    /\ LET name == Strip(row.name, {" "})
           file_id == FileIdFor(row.image)
       IN  IF name = <<>> THEN SkipRow(row, "no name")
           ELSE IF row.image = "" THEN SkipRow(row, "no image")
           ELSE IF file_id = "" THEN SkipRow(row, "missing")
           ELSE \E fail \in {"none", "fetch", "web fetch"} :
                    SyncRow(row, name, file_id, fail)
    /\ UNCHANGED <<driveName, driveBytes, driveHasWeb, driveWeb,
                   fix_images, files, web_files, startFile,
                   loaded, saves, base, runs, changes, clock>>

\* The row loop with _save_manifest(manifest) indented into its body.
ProcessRow_saving(row) ==
    /\ RowPass(row)
    /\ manifestFile' = _save_manifest(manifest')

\* One pass of "for row in reader": nothing in the loop writes MANIFEST_PATH.
ProcessRow(row) ==
    /\ RowPass(row)
    /\ UNCHANGED manifestFile

\* The reader is exhausted: _save_manifest, the manual-upload warning,
\* return errors.
FinishRun ==
    /\ pc = "rows"
    /\ manifestFile' = _save_manifest(manifest)
    /\ saves' = saves + 1
    /\ errors' = IF manual_upload
                 THEN Append(errors, [kind |-> "manual upload", ref |-> "web"])
                 ELSE errors
    /\ pc' = "done"
    /\ UNCHANGED <<driveName, driveBytes, driveHasWeb, driveWeb, new_rows,
                   rawDir, webDir, fix_images, files, web_files, manifest,
                   manual_upload, startFile, loaded, log, base, cause,
                   runs, changes, clock>>

\* The process is killed during the row loop.
Kill ==
    /\ pc = "rows"
    /\ pc' = "aborted"
    /\ cause' = "killed"
    /\ UNCHANGED <<driveName, driveBytes, driveHasWeb, driveWeb, new_rows,
                   manifestFile, rawDir, webDir, fix_images, files, web_files,
                   manifest, errors, manual_upload, startFile, loaded,
                   log, saves, base, runs, changes, clock>>

\* ---- what happens outside the program, between two runs
Outside ==
    /\ pc # "rows"
    /\ changes < MaxChanges
    /\ changes' = changes + 1
    \* the process of the last run is gone, and its locals with it
    /\ pc' = "idle"
    /\ fix_images' = FALSE
    /\ files' = <<>>
    /\ web_files' = {}
    /\ manifest' = [images |-> NoDict]
    /\ errors' = <<>>
    /\ manual_upload' = FALSE
    /\ startFile' = NoFile
    /\ loaded' = NoDict
    /\ log' = <<>>
    /\ saves' = 0
    /\ base' = NoBase
    /\ cause' = ""
    /\ new_rows' = <<>>
    /\ UNCHANGED <<rawDir, webDir, runs, clock>>

\* A Drive file is renamed.
RenameRemote ==
    /\ Outside
    /\ \E f \in FileIdSet, n \in ImageNames :
           /\ driveName[f] # n
           /\ driveName' = [driveName EXCEPT ![f] = n]
    /\ UNCHANGED <<driveBytes, driveHasWeb, driveWeb, manifestFile>>

\* A Drive file gets new content under the same id.
ReplaceRemote ==
    /\ Outside
    /\ \E f \in FileIdSet, b \in RawContents :
           /\ driveBytes[f] # b
           /\ driveBytes' = [driveBytes EXCEPT ![f] = b]
    /\ UNCHANGED <<driveName, driveHasWeb, driveWeb, manifestFile>>

\* Somebody puts a file into the "web" folder: a local web image, as the
\* warning asks, or a file made by hand under the name of an item's variant.
UploadWeb ==
    /\ Outside
    /\ driveHasWeb
    /\ \/ \E p \in DOMAIN webDir : driveWeb' = Put(driveWeb, p, webDir[p])
       \/ \E r \in Rows, ext \in {".jpg", ".webp"} :
              /\ r.image # ""
              /\ driveWeb' = Put(driveWeb, <<slugify(r.name), ext>>, HandMade)
    /\ UNCHANGED <<driveName, driveBytes, driveHasWeb, manifestFile>>

\* The manifest file is deleted or damaged.
DamageManifest ==
    /\ Outside
    /\ \E f \in DamagedFiles :
           /\ f # manifestFile
           /\ manifestFile' = f
    /\ UNCHANGED <<driveName, driveBytes, driveHasWeb, driveWeb>>

\* ----------------------------------- the loop of _save_with_budget
VARIABLES
    \* The inputs: q_start, max_bytes, and what img2.save writes at each quality.
    q_start, max_bytes, size_at,
    \* The locals and the file at out_path (NoDict until the first save).
    best_q, out_file, b_pc,
    \* History: the qualities encoded so far, in order.
    encoded

budgetVars == <<q_start, max_bytes, size_at, best_q, out_file, b_pc, encoded>>

\* The qualities the loop can visit from the two q_start of the callers.
Qualities == {q \in QUALITY_FLOOR..JPEG_QUALITY_START : q % QUALITY_STEP = 0}

\* The callers pass JPEG_QUALITY_START or WEBP_QUALITY_START and WEB_MAX_BYTES;
\* an encoding either just fits the budget or is one byte over it.
BudgetInit ==
    /\ q_start \in {JPEG_QUALITY_START, WEBP_QUALITY_START}
    /\ max_bytes = WEB_MAX_BYTES
    /\ size_at \in [Qualities -> {WEB_MAX_BYTES, WEB_MAX_BYTES + 1}]
    /\ best_q = q_start
    /\ out_file = NoDict
    /\ b_pc = "loop"
    /\ encoded = <<>>

BudgetIdle ==
    /\ q_start = JPEG_QUALITY_START
    /\ max_bytes = WEB_MAX_BYTES
    /\ size_at = [q \in Qualities |-> WEB_MAX_BYTES]
    /\ best_q = q_start
    /\ out_file = NoDict
    /\ b_pc = "idle"
    /\ encoded = <<>>

\* One pass of the while loop: save at best_q, then break or lower best_q.
EncodeStep ==
    /\ b_pc = "loop"
    /\ LoopCondition(best_q)
    /\ out_file' = [quality |-> best_q, size |-> size_at[best_q]]
    /\ encoded' = Append(encoded, best_q)
    /\ IF size_at[best_q] <= max_bytes
       THEN b_pc' = "done" /\ best_q' = best_q
       ELSE b_pc' = "loop" /\ best_q' = best_q - QUALITY_STEP
    /\ UNCHANGED <<q_start, max_bytes, size_at>>

\* The loop condition fails: the function returns.
LoopExit ==
    /\ b_pc = "loop"
    /\ ~LoopCondition(best_q)
    /\ b_pc' = "done"
    /\ UNCHANGED <<q_start, max_bytes, size_at, best_q, out_file, encoded>>

\* ------------------------------------------------------ generate_site
VARIABLES
    \* The rows csv.DictReader has yielded so far.
    gen_csv,
    \* The output directory's item pages: file name -> the item rendered.
    pages,
    \* generate_site's errors list, and the process: its state and exit status.
    gen_errors, g_pc, exit_code,
    \* History: the rows (by position) create_item_page was called for, in order.
    rendered

genVars == <<gen_csv, pages, gen_errors, g_pc, exit_code, rendered>>

vars == <<syncVars, budgetVars, genVars>>

\* The values a row's columns take.
GenShows == {<<"Y", "e", "s">>, <<"n", "o">>}
GenPrices == {<<"₹", "1", ",", "2", "0", "0">>, <<"1", "2", "x">>, <<>>}
GenCategories == {"Cakes & Puddings", "Bread"}
GenImages == {<<"a", ".", "J", "P", "G">>, <<"a", ".", "g", "i", "f">>}
GenNames == {<<"T", " ", "C">>}
GenRows == [show : GenShows, price : GenPrices, category : GenCategories,
            image : GenImages, name : GenNames]

\* int() of a string of digits.
DigitValue(ch) == CASE ch = "0" -> 0 [] ch = "1" -> 1 [] ch = "2" -> 2 [] ch = "5" -> 5
RECURSIVE ParseInt(_)
ParseInt(s) ==
    IF s = <<>> THEN 0
    ELSE 10 * ParseInt(SubSeq(s, 1, Len(s) - 1)) + DigitValue(s[Len(s)])

\* MenuItem.validate_price: the cleaned value, <<>> standing for ValueError
\* (isdigit rejects the empty string too).
validate_price(v) ==
    LET value == Strip(Remove(Remove(v, "₹"), ","), {" "})
    IN  IF IsDigit(value) THEN value ELSE <<>>

\* MenuItem.validate_category: no ValueError.
validate_category(v) == v \in CATEGORIES

\* MenuItem.validate_image: no ValueError.
validate_image(v) ==
    \E ext \in { <<".", "j", "p", "g">>, <<".", "j", "p", "e", "g">>,
                 <<".", "p", "n", "g">>, <<".", "w", "e", "b", "p">> } :
        EndsWith(Lower(v), ext)

\* MenuItem(**row) raises ValidationError.
Invalid(row) ==
    \/ validate_price(row.price) = <<>>
    \/ ~validate_category(row.category)
    \/ ~validate_image(row.image)

\* MenuItem(**row) for a row that validates.
MenuItem(row) ==
    [name |-> row.name, category |-> row.category,
     price |-> ParseInt(validate_price(row.price)), image |-> row.image]

\* The visibility test without .lower().
IsShown_caseSensitive(row) == SubSeq(row.show, 1, 1) = <<"y">>

\* not (row["show"].lower()[:1] != "y")
IsShown(row) == SubSeq(Lower(row.show), 1, 1) = <<"y">>

\* create_item_page: f"{item.name.lower().replace(' ', '-')}.html"
PageName(item) ==
    [k \in 1..Len(item.name) |->
        IF Lower(item.name)[k] = " " THEN "-" ELSE Lower(item.name)[k]]
    \o <<".html">>

GenInit ==
    /\ gen_csv = <<>>
    /\ pages = NoDict
    /\ gen_errors = <<>>
    /\ g_pc = "rows"
    /\ exit_code = 0
    /\ rendered = <<>>

GenIdle ==
    /\ gen_csv = <<>>
    /\ pages = NoDict
    /\ gen_errors = <<>>
    /\ g_pc = "idle"
    /\ exit_code = 0
    /\ rendered = <<>>

\* One pass of "for row in reader" in generate_site, for the next row of the
\* catalog, which has at most MaxGenRows rows.
GenRow(row) ==
    /\ g_pc = "rows"
    /\ Len(gen_csv) < MaxGenRows
    /\ gen_csv' = Append(gen_csv, row)
    /\ IF ~IsShown(row)
       THEN UNCHANGED <<pages, gen_errors, rendered>>
       ELSE IF Invalid(row)
       THEN /\ gen_errors' = Append(gen_errors, [row |-> Len(gen_csv) + 1, name |-> row.name])
            /\ UNCHANGED <<pages, rendered>>
       ELSE /\ pages' = Put(pages, PageName(MenuItem(row)), MenuItem(row))
            /\ rendered' = Append(rendered, Len(gen_csv) + 1)
            /\ UNCHANGED gen_errors
    /\ UNCHANGED <<g_pc, exit_code>>

\* The reader is exhausted: generate_site returns errors, and __main__ exits
\* with status 1 when there are any.
GenExit ==
    /\ g_pc = "rows"
    /\ g_pc' = "exited"
    /\ exit_code' = IF gen_errors # <<>> THEN 1 ELSE 0
    /\ UNCHANGED <<gen_csv, pages, gen_errors, rendered>>

\* ------------------------------------------------------ specifications
Next ==
    \/ (\E fix \in BOOLEAN : StartRun(fix)) /\ UNCHANGED <<budgetVars, genVars>>
    \/ (\E row \in Rows : ProcessRow(row)) /\ UNCHANGED <<budgetVars, genVars>>
    \/ FinishRun /\ UNCHANGED <<budgetVars, genVars>>
    \/ Kill /\ UNCHANGED <<budgetVars, genVars>>
    \/ RenameRemote /\ UNCHANGED <<budgetVars, genVars>>
    \/ ReplaceRemote /\ UNCHANGED <<budgetVars, genVars>>
    \/ UploadWeb /\ UNCHANGED <<budgetVars, genVars>>
    \/ DamageManifest /\ UNCHANGED <<budgetVars, genVars>>

SpecInit == Init /\ BudgetIdle /\ GenIdle

Spec == SpecInit /\ [][Next]_vars

\* The start of one run: a fresh checkout or the disk an earlier run left,
\* the manifest as left or damaged, and the Drive folder with its files
\* renamed or f1 replaced in the meantime, a hand-made variant published or not.
RunInit ==
    /\ \E disk \in {FreshDisk, PriorSync} :
           /\ rawDir = disk.raw
           /\ webDir = disk.web
           /\ manifestFile \in {disk.file} \cup DamagedFiles
    /\ driveName \in [FileIdSet -> ImageNames]
    /\ driveBytes \in {b \in [FileIdSet -> RawContents] : b["f2"] = <<"Y">>}
    /\ driveHasWeb \in BOOLEAN
    /\ driveWeb \in {NoDict} \cup
                     {d \in {JpegPath(slugify(<<"B", "!">>)) :> HandMade} : driveHasWeb}
    /\ new_rows = <<>>
    /\ pc = "idle"
    /\ fix_images = FALSE
    /\ files = <<>>
    /\ web_files = {}
    /\ manifest = [images |-> NoDict]
    /\ errors = <<>>
    /\ manual_upload = FALSE
    /\ startFile = NoFile
    /\ loaded = NoDict
    /\ log = <<>>
    /\ saves = 0
    /\ base = NoBase
    /\ cause = ""
    /\ runs = MaxRuns - 1
    /\ changes = MaxChanges
    /\ clock = 1

RunNext ==
    \/ (\E fix \in BOOLEAN : StartRun(fix)) /\ UNCHANGED <<budgetVars, genVars>>
    \/ (\E row \in Rows : ProcessRow(row)) /\ UNCHANGED <<budgetVars, genVars>>
    \/ FinishRun /\ UNCHANGED <<budgetVars, genVars>>
    \/ Kill /\ UNCHANGED <<budgetVars, genVars>>

SpecRunInit == RunInit /\ BudgetIdle /\ GenIdle

SpecRun == SpecRunInit /\ [][RunNext]_vars

SyncIdle ==
    /\ Init
    /\ driveHasWeb = FALSE

BudgetNext ==
    \/ EncodeStep /\ UNCHANGED <<syncVars, genVars>>
    \/ LoopExit /\ UNCHANGED <<syncVars, genVars>>

SpecBudgetInit == SyncIdle /\ BudgetInit /\ GenIdle

SpecBudget == SpecBudgetInit /\ [][BudgetNext]_vars

GenNext ==
    \/ (\E row \in GenRows : GenRow(row)) /\ UNCHANGED <<syncVars, budgetVars>>
    \/ GenExit /\ UNCHANGED <<syncVars, budgetVars>>

SpecGenInit == SyncIdle /\ BudgetIdle /\ GenInit

SpecGen == SpecGenInit /\ [][GenNext]_vars

\* ---------------------------------------------------------- properties
\* What a finished or stopped run is judged by.
OkRows == {k \in 1..Len(log) : log[k].outcome = "ok"}
Resolved == {log[k].fid : k \in 1..Len(log)} \ {""}
Completed == {log[k].fid : k \in OkRows}
WellFormed(file) == file.exists /\ file.parses /\ "images" \in DOMAIN file.doc
RunStarted == pc \in {"rows", "done", "aborted"}

\* C1: a row whose fetch, decode or write raises is recorded in errors with
\* its file id, the loop goes on with the later rows (the run is not aborted),
\* and the manifest file is saved when the run ends.
C1_RowFailureDoesNotStopBatch ==
    \A k \in 1..Len(log) :
        log[k].outcome = "failed" =>
            /\ \E e \in 1..Len(errors) :
                   errors[e] = [kind |-> "exception", ref |-> log[k].fid]
            /\ pc # "aborted"
            /\ (pc = "done" => manifestFile = _save_manifest(manifest))

\* The attributes C2 compares: fingerprint, variant names, variant sizes.
Compared(entry) ==
    [k \in (DOMAIN entry) \cap {"raw_sha", "jpeg", "jpeg_bytes", "webp", "webp_bytes"}
        |-> entry[k]]

\* C2: a run with fix_images = FALSE over the same rows, directly after a
\* completed run with nothing changed in between, transcodes no row and
\* leaves every web file and every entry's fingerprint, variant names and
\* variant sizes as the first run left them.
C2_RerunChangesNothing ==
    (pc = "done" /\ base.valid /\ ~fix_images /\ new_rows = base.rows) =>
        /\ \A k \in 1..Len(log) : ~log[k].transcoded
        /\ webDir = base.web
        /\ DOMAIN manifestFile.doc.images = DOMAIN base.images
        /\ \A f \in DOMAIN base.images :
               Compared(manifestFile.doc.images[f]) = Compared(base.images[f])

\* C3: a row that completes for an identifier whose served bytes differ from
\* the fingerprint the manifest held for it when the run loaded it (or that
\* had no entry) is transcoded, and the entry's raw_sha is the SHA-256 of the
\* bytes fetched. A row is excused when an earlier row of the run with the
\* same name and image was transcoded, its variant being the one just made.
C3_ChangedBytesAreTranscoded ==
    \A k \in OkRows :
        LET f == log[k].fid
            sha == _sha256_bytes(log[k].fetched)
            AlreadyMade == \E j \in 1..(k - 1) :
                               /\ new_rows[j] = new_rows[k]
                               /\ log[j].transcoded
        IN  (f \notin DOMAIN loaded \/ loaded[f].raw_sha # sha) =>
                /\ log[k].transcoded \/ AlreadyMade
                /\ manifest.images[f].raw_sha = sha

\* C6: a run that finds the manifest file missing, unparseable or without the
\* "images" mapping goes on as with an empty manifest, raises nothing because
\* of it, and saves a well-formed manifest at its end.
C6_BadManifestIsNotFatal ==
    (RunStarted /\ ~WellFormed(startFile)) =>
        /\ cause # "manifest"
        /\ loaded = NoDict
        /\ \A k \in OkRows : log[k].transcoded
        /\ (pc = "done" => WellFormed(manifestFile))

\* C7: a row whose image name matches no Drive file is skipped, and the list
\* the run returns holds a warning for it.
C7_MissingRemoteIsReturned ==
    pc = "done" =>
        \A k \in 1..Len(log) :
            log[k].outcome = "missing" =>
                \E e \in 1..Len(errors) :
                    errors[e] = [kind |-> "missing", ref |-> log[k].image]

\* C8: the manifest file is written at most once per run, by the save after
\* the row loop: up to that save, and in a run killed or aborted, it is what
\* it was when the run started.
C8_ManifestFileWrittenOnceAtEnd ==
    /\ saves <= 1
    /\ (pc \in {"rows", "aborted"} => saves = 0 /\ manifestFile = startFile)
    /\ (pc = "done" => saves = 1 /\ manifestFile = _save_manifest(manifest))

\* A run stopped after a row had changed the manifest in memory, with the
\* manifest file of an earlier run untouched.
C8_Witness ==
    /\ pc = "aborted"
    /\ WellFormed(startFile)
    /\ OkRows # {}
    /\ manifest.images # loaded
    /\ manifestFile = startFile

\* C9: the saved manifest keeps every loaded entry; the entries of
\* identifiers no row resolved to are unchanged, and only identifiers of rows
\* that reached the manifest update have a new or changed entry.
C9_EntriesAreNeverDeleted ==
    pc = "done" =>
        LET saved == manifestFile.doc.images
        IN  /\ DOMAIN loaded \subseteq DOMAIN saved
            /\ \A f \in (DOMAIN loaded) \ Resolved : saved[f] = loaded[f]
            /\ \A f \in DOMAIN saved :
                   (f \notin DOMAIN loaded \/ saved[f] # loaded[f]) => f \in Completed

\* A finished run that left the entry of an identifier no row resolved to
\* beside an entry it rewrote.
C9_Witness ==
    /\ pc = "done"
    /\ (DOMAIN loaded) \ Resolved # {}
    /\ \E f \in Completed \cap DOMAIN loaded :
           manifestFile.doc.images[f] # loaded[f]

\* C10: whenever the transcoder runs for a row, the raw file it decodes holds
\* the bytes fetched for the row's identifier in this run.
C10_TranscoderReadsFetchedBytes ==
    \A k \in 1..Len(log) :
        log[k].transcoded => log[k].decoded = log[k].fetched

\* ---- _save_with_budget
\* C5: the loop encodes at q_start, q_start - 5, ...; it goes on only after an
\* encoding over max_bytes; it ends, never stuck, after at most twelve
\* encodings; and the file left is the last encoding, which fits max_bytes or
\* was made at quality 30.
C5_BudgetLoopEndsAtFitOrFloor ==
    /\ \A k \in 1..Len(encoded) : encoded[k] = q_start - 5 * (k - 1)
    /\ \A k \in 1..(Len(encoded) - 1) : size_at[encoded[k]] > max_bytes
    /\ Len(encoded) <= 12
    /\ (encoded # <<>> =>
            out_file = [quality |-> encoded[Len(encoded)],
                        size |-> size_at[encoded[Len(encoded)]]])
    /\ (b_pc = "loop" => ENABLED BudgetNext)
    /\ (b_pc = "done" =>
            /\ encoded # <<>>
            /\ (out_file.size <= max_bytes \/ out_file.quality = 30))

\* The loop fell through: every encoding was over budget, the last at 30.
C5_Witness ==
    /\ b_pc = "done"
    /\ out_file.quality = 30
    /\ out_file.size > max_bytes
    /\ Len(encoded) = 12

\* ---- generate_site
\* What the claim calls visible and valid, on the values of GenRows.
ClaimVisible(row) == row.show # <<>> /\ row.show[1] \in {"y", "Y"}
ClaimValid(row) ==
    /\ row.price = <<"₹", "1", ",", "2", "0", "0">>
    /\ row.category \in {"Cookies & Shortbreads", "Cakes & Puddings", "Granola & Pantry"}
    /\ row.image = <<"a", ".", "J", "P", "G">>
Positions == [k \in 1..Len(gen_csv) |-> k]

\* C4: pages are made for exactly the visible rows that validate, in order;
\* errors holds one entry for each visible row that does not, in order; a row
\* that is not visible gives neither; and the exit status is non-zero exactly
\* when errors is not empty.
C4_PagesAndErrorsMatchRows ==
    LET Page(k) == ClaimVisible(gen_csv[k]) /\ ClaimValid(gen_csv[k])
        Bad(k) == ClaimVisible(gen_csv[k]) /\ ~ClaimValid(gen_csv[k])
    IN  /\ rendered = SelectSeq(Positions, Page)
        /\ [k \in 1..Len(gen_errors) |-> gen_errors[k].row] = SelectSeq(Positions, Bad)
        /\ (pages # NoDict <=> rendered # <<>>)
        /\ \A k \in 1..Len(rendered) : MenuItem(gen_csv[rendered[k]]).price = 1200
        /\ (g_pc = "exited" => (exit_code # 0 <=> gen_errors # <<>>))

\* The three-row catalog: a visible row of a bad category, a hidden invalid
\* row, then a visible valid row, which is the one page made; exit status 1.
C4_Witness ==
    /\ g_pc = "exited"
    /\ Len(gen_csv) = 3
    /\ ClaimVisible(gen_csv[1]) /\ gen_csv[1].category = "Bread"
    /\ ~ClaimVisible(gen_csv[2]) /\ ~ClaimValid(gen_csv[2])
    /\ ClaimVisible(gen_csv[3]) /\ ClaimValid(gen_csv[3])
    /\ rendered = <<3>>
    /\ Len(gen_errors) = 1
    /\ exit_code = 1

====
